---- MODULE Spec2Model ----
(***************************************************************************)
(* Model of three commands of jx:                                          *)
(*   - jx step pr labels      (pkg/cmd/step/pr/step_pr_labels.go)          *)
(*   - jx step create pr regex (pkg/cmd/step/create/pr/...regex.go),       *)
(*     its option validation                                               *)
(*   - jx add app             (pkg/jx/cmd/add_app.go and its helpers)      *)
(* Go strings whose characters matter are sequences of one-character       *)
(* strings; the empty Go string is the empty sequence.                     *)
(***************************************************************************)
EXTENDS Integers, Sequences, FiniteSets, TLC

VARIABLES
    \* ---- jx step pr labels: StepPRLabelsOptions.Run
    pcRun,          \* position in Run
    PullRequest,    \* o.PullRequest
    Prefix,         \* o.Prefix
    GitURL,         \* o.GitURL
    BRANCH_NAME,    \* os.Getenv("BRANCH_NAME"), "" when unset
    flagPR,         \* the value --pr was given (o.PullRequest on entry)
    flagPrefix,     \* the value --prefix was given (o.Prefix on entry)
    prNum,          \* prNum of Run
    warnLog,        \* identifiers log.Logger().Warn reported as unconvertible
    getPRCalls,     \* numbers provider.GetPullRequest was called with
    Labels,         \* pr.Labels of the fetched pull request
    labelIdx,       \* index of the next label of the range loop
    envKeys,        \* the upper-cased envKey of every label printed so far
    stdout,         \* the characters printed to standard output
    runErr,         \* what Run returned ("none" while it runs)
    \* ---- label name normalization applied to a name and to its own result
    pcNorm,         \* "idle", "name", "once" or "twice"
    normName,       \* a label name
    normOnce,       \* its normalization
    normTwice,      \* the normalization of normOnce
    \* ---- jx step create pr regex: StepCreatePullRequestRegexOptions
    Regexp,         \* o.Regexp
    SrcGitURL,      \* o.SrcGitURL
    Kind,           \* o.Kind
    validateLog,    \* one entry per call of ValidateRegexOptions: o.Regexp before
                    \* and after it, and the error it returned
    \* ---- jx add app: AddAppOptions.Run
    pcApp,          \* position in Run and in its chart-inspection callback
    o,              \* the AddAppOptions fields the flags set
    GitOps,         \* o.GitOps
    DevEnv,         \* the dev environment: Spec.Source.URL, TeamSettings.AppsRepository
    useVault,       \* what o.UseVault() answers
    version,        \* version of Run, shared with the callback
    schema,         \* schema != nil
    secrets,        \* the generated secrets generateQuestions returned
    tempCreated,    \* temporary files ioutil.TempFile has created
    tempFiles,      \* temporary files that exist
    chartFiles,     \* files written into the chart directory
    vaultCalls,     \* the vault.WriteMap calls: path, data, and whether it succeeded
    deferred,       \* the close functions the callback has deferred
    hsErr,          \* what handleSecrets returned ("none" before it is called)
    applied,        \* the createPR and installApp calls
    appErr,         \* what Run returned ("none" while it runs)
    \* ---- metapipeline: clientFactory.determineBranchIdentifier
    pcBranch,       \* "idle", "call" or "done"
    pipelineKind,   \* the PipelineKind argument
    pullRef,        \* the PullRef argument: base branch and pull requests
    branchIdentifier, \* the identifier returned
    branchErr       \* the error returned ("none" before the call, "nil" for no error)

labelVars == <<pcRun, PullRequest, Prefix, GitURL, BRANCH_NAME, flagPR, flagPrefix,
               prNum, warnLog, getPRCalls, Labels, labelIdx, envKeys, stdout, runErr>>

normVars == <<pcNorm, normName, normOnce, normTwice>>
regexVars == <<Regexp, SrcGitURL, Kind, validateLog>>

appVars == <<pcApp, o, GitOps, DevEnv, useVault, version, schema, secrets, tempCreated,
             tempFiles, chartFiles, vaultCalls, deferred, hsErr, applied, appErr>>

branchVars == <<pcBranch, pipelineKind, pullRef, branchIdentifier, branchErr>>

vars == <<labelVars, normVars, regexVars, appVars, branchVars>>

(***************************************************************************)
(* Characters and strings                                                  *)
(***************************************************************************)
LowerSeq == <<"a","b","c","d","e","f","g","h","i","j","k","l","m",
              "n","o","p","q","r","s","t","u","v","w","x","y","z">>
UpperSeq == <<"A","B","C","D","E","F","G","H","I","J","K","L","M",
              "N","O","P","Q","R","S","T","U","V","W","X","Y","Z">>
DigitSeq == <<"0","1","2","3","4","5","6","7","8","9">>

Range(s) == {s[i] : i \in DOMAIN s}
Lower == Range(LowerSeq)
Upper == Range(UpperSeq)
Digits == Range(DigitSeq)

SeqsUpTo(S, n) == UNION {[1..k -> S] : k \in 0..n}

RECURSIVE Concat(_)
Concat(ss) == IF ss = <<>> THEN <<>> ELSE Head(ss) \o Concat(Tail(ss))

\* strings.HasPrefix
HasPrefix(s, p) == Len(s) >= Len(p) /\ SubSeq(s, 1, Len(p)) = p

\* strings.TrimPrefix
TrimPrefix(s, p) == IF HasPrefix(s, p) THEN SubSeq(s, Len(p) + 1, Len(s)) ELSE s

\* strings.ToUpper, on one character and on a string
SwapCaseChar(c) ==
    IF c \in Lower THEN UpperSeq[CHOOSE i \in 1..26 : LowerSeq[i] = c]
    ELSE IF c \in Upper THEN LowerSeq[CHOOSE i \in 1..26 : UpperSeq[i] = c]
    ELSE c
ToUpperChar(c) ==
    IF c \in Lower THEN UpperSeq[CHOOSE i \in 1..26 : LowerSeq[i] = c] ELSE c
ToUpper(s) == [i \in 1..Len(s) |-> ToUpperChar(s[i])]

\* strconv.Atoi: an optional sign, then one or more decimal digits, nothing else
DigitVal(c) == CHOOSE d \in 0..9 : DigitSeq[d + 1] = c
RECURSIVE DigitsVal(_)
DigitsVal(s) ==
    IF s = <<>> THEN 0
    ELSE 10 * DigitsVal(SubSeq(s, 1, Len(s) - 1)) + DigitVal(s[Len(s)])
AtoiBody(s) == IF s # <<>> /\ s[1] \in {"+", "-"} THEN Tail(s) ELSE s
AtoiOk(s) == AtoiBody(s) # <<>> /\ \A i \in 1..Len(AtoiBody(s)) : AtoiBody(s)[i] \in Digits
AtoiNum(s) ==
    IF ~AtoiOk(s) THEN 0
    ELSE IF s[1] = "-" THEN 0 - DigitsVal(AtoiBody(s)) ELSE DigitsVal(AtoiBody(s))

\* strconv.Itoa, the decimal text of a number (fmt's %d)
RECURSIVE NatText(_)
NatText(n) ==
    IF n < 10 THEN <<DigitSeq[n + 1]>> ELSE NatText(n \div 10) \o <<DigitSeq[(n % 10) + 1]>>
Itoa(n) == IF n < 0 THEN <<"-">> \o NatText(0 - n) ELSE NatText(n)

(***************************************************************************)
(* What the variables of a command hold while another command is modelled  *)
(***************************************************************************)
IdleNorm ==
    /\ pcNorm = "idle"
    /\ normName = <<>>
    /\ normOnce = <<>>
    /\ normTwice = <<>>

IdleRegex ==
    /\ Regexp = <<>>
    /\ SrcGitURL = ""
    /\ Kind = ""
    /\ validateLog = <<>>

IdleBranch ==
    /\ pcBranch = "idle"
    /\ pipelineKind = "release"
    /\ pullRef = [baseBranch |-> <<>>, pullRequests |-> <<>>]
    /\ branchIdentifier = <<>>
    /\ branchErr = "none"

AppName == <<"a", "p", "p">>
NoOptions ==
    [Repo |-> "", ReleaseName |-> "", HelmUpdate |-> TRUE, Namespace |-> "",
     SetValues |-> <<>>, ValuesFiles |-> <<>>, Alias |-> "", Version |-> <<>>,
     Args |-> <<AppName>>]

IdleApp ==
    /\ pcApp = "idle"
    /\ o = NoOptions
    /\ GitOps = FALSE
    /\ DevEnv = [SourceURL |-> <<>>, AppsRepository |-> ""]
    /\ useVault = FALSE
    /\ version = <<>>
    /\ schema = FALSE
    /\ secrets = <<>>
    /\ tempCreated = {}
    /\ tempFiles = {}
    /\ chartFiles = {}
    /\ vaultCalls = <<>>
    /\ deferred = <<>>
    /\ hsErr = "none"
    /\ applied = <<>>
    /\ appErr = "none"

(***************************************************************************)
(* jx step pr labels                                                       *)
(***************************************************************************)
DefaultPrefix == <<"J","X","_","P","R","_","L","A","B","E","L","S">>

\* the character class [a-zA-Z0-9] whose complement the regexp of Run matches
IsAlnum(c) == c \in Lower \cup Upper \cup Digits

\* reg.ReplaceAllString(s, repl) for reg = [^a-zA-Z0-9]+ : every maximal run of
\* characters outside the class is replaced by repl
RECURSIVE DropRun(_)
DropRun(s) == IF s # <<>> /\ ~IsAlnum(Head(s)) THEN DropRun(Tail(s)) ELSE s
RECURSIVE RegReplaceAllString(_, _)
RegReplaceAllString(s, repl) ==
    IF s = <<>> THEN <<>>
    ELSE IF IsAlnum(Head(s)) THEN <<Head(s)>> \o RegReplaceAllString(Tail(s), repl)
    ELSE repl \o RegReplaceAllString(DropRun(Tail(s)), repl)

\* strings.ToUpper(reg.ReplaceAllString(*v.Name, "_"))
EnvKey(name) == ToUpper(RegReplaceAllString(name, <<"_">>))

\* fmt.Printf("%v_%v='%v'", o.Prefix, strings.ToUpper(envKey), *v.Name)
Printf(prefix, name) ==
    prefix \o <<"_">> \o EnvKey(name) \o <<"=", "'">> \o name \o <<"'">>

\* A label as the provider returns it: Name is a *string, hasName is Name != nil
Label(name) == [hasName |-> TRUE, Name |-> name]
NilNameLabel == [hasName |-> FALSE, Name |-> <<>>]

MaxLabels == 2
FlagPRValues == { <<>>, <<"3","4">>, <<"P","R","-","3","4">>, <<"P","R","-">>,
                  <<"a","b","c">>, <<"-","7">> }
BranchNameValues == { <<>>, <<"P","R","-","3","4">>, <<"P","R","-">>,
                      <<"m","a","s","t","e","r">>, <<"5">> }
FlagPrefixValues == { <<>>, <<"P","R","L">> }
GitURLValues == { <<>>, <<"u">> }
LabelNameValues == { <<>>, <<"b","u","g">>, <<"K","i","n","d","/","B","u","g">>,
                     <<"a"," ","-","b">>, <<"-">>, <<"v","1","_","x">> }
LabelValues == {Label(n) : n \in LabelNameValues} \cup {NilNameLabel}
LabelLists == SeqsUpTo(LabelValues, MaxLabels)

IdleLabels ==
    /\ pcRun = "idle"
    /\ PullRequest = <<>>
    /\ flagPR = <<>>
    /\ Prefix = <<>>
    /\ flagPrefix = <<>>
    /\ GitURL = <<>>
    /\ BRANCH_NAME = <<>>
    /\ prNum = 0
    /\ warnLog = <<>>
    /\ getPRCalls = <<>>
    /\ Labels = <<>>
    /\ labelIdx = 1
    /\ envKeys = <<>>
    /\ stdout = <<>>
    /\ runErr = "none"

InitLabels ==
    /\ IdleNorm
    /\ IdleRegex
    /\ IdleApp
    /\ IdleBranch
    /\ pcRun = "CreateGitProvider"
    /\ PullRequest \in FlagPRValues
    /\ flagPR = PullRequest
    /\ Prefix \in FlagPrefixValues
    /\ flagPrefix = Prefix
    /\ GitURL \in GitURLValues
    /\ BRANCH_NAME \in BranchNameValues
    /\ prNum = 0
    /\ warnLog = <<>>
    /\ getPRCalls = <<>>
    /\ Labels = <<>>
    /\ labelIdx = 1
    /\ envKeys = <<>>
    /\ stdout = <<>>
    /\ runErr = "none"

Return(err) == pcRun' = "done" /\ runErr' = err

\* o.PullRequest after lines 99-101
ResolveEnvFirst(flag, env) ==
    IF env # <<>> THEN TrimPrefix(env, <<"P","R","-">>) ELSE flag
ResolvePullRequest(flag, env) ==
    IF flag = <<>> THEN TrimPrefix(env, <<"P","R","-">>) ELSE flag

\* o.Prefix after lines 107-109
ResolvePrefix(prefix) == IF prefix = <<>> THEN DefaultPrefix ELSE prefix

\* the number handed to GetPullRequest for an identifier: prNum of line 111,
\* which strconv.Atoi leaves 0 when it fails
LookupNumberMinusOne(id) == IF AtoiOk(id) THEN AtoiNum(id) ELSE 0 - 1
LookupNumber(id) == AtoiNum(id)

\* lines 91-97
CreateGitProvider ==
    /\ pcRun = "CreateGitProvider"
    /\ UNCHANGED <<normVars, regexVars, appVars, branchVars>>
    /\ \E outcome \in {"ok", "err", "nil"} :
          CASE outcome = "ok" -> pcRun' = "ResolveOptions" /\ runErr' = runErr
            [] outcome = "err" -> Return("CreateGitProviderError")
            [] outcome = "nil" -> Return("NoGitProvider")
    /\ UNCHANGED <<PullRequest, Prefix, GitURL, BRANCH_NAME, flagPR, flagPrefix, prNum,
                   warnLog, getPRCalls, Labels, labelIdx, envKeys, stdout>>

\* lines 99-114
ResolveOptions ==
    /\ pcRun = "ResolveOptions"
    /\ UNCHANGED <<normVars, regexVars, appVars, branchVars>>
    /\ PullRequest' = ResolvePullRequest(PullRequest, BRANCH_NAME)
    /\ IF PullRequest' = <<>>
       THEN /\ Return("MissingOption(pr)")
            /\ UNCHANGED <<Prefix, prNum, warnLog>>
       ELSE /\ Prefix' = ResolvePrefix(Prefix)
            /\ prNum' = LookupNumber(PullRequest')
            /\ warnLog' = IF AtoiOk(PullRequest') THEN warnLog
                          ELSE Append(warnLog, PullRequest')
            /\ pcRun' = "ParseGitURL"
            /\ runErr' = runErr
    /\ UNCHANGED <<GitURL, BRANCH_NAME, flagPR, flagPrefix, getPRCalls, Labels,
                   labelIdx, envKeys, stdout>>

\* lines 116-121
ParseGitURL ==
    /\ pcRun = "ParseGitURL"
    /\ UNCHANGED <<normVars, regexVars, appVars, branchVars>>
    /\ IF GitURL = <<>>
       THEN pcRun' = "GetPullRequest" /\ runErr' = runErr
       ELSE \E ok \in BOOLEAN :
               IF ok THEN pcRun' = "GetPullRequest" /\ runErr' = runErr
               ELSE Return("ParseGitURLError")
    /\ UNCHANGED <<PullRequest, Prefix, GitURL, BRANCH_NAME, flagPR, flagPrefix, prNum,
                   warnLog, getPRCalls, Labels, labelIdx, envKeys, stdout>>

\* lines 123-126
GetPullRequest ==
    /\ pcRun = "GetPullRequest"
    /\ UNCHANGED <<normVars, regexVars, appVars, branchVars>>
    /\ getPRCalls' = Append(getPRCalls, prNum)
    /\ \/ /\ Return("GetPullRequestError")
          /\ UNCHANGED Labels
       \/ /\ Labels' \in LabelLists
          /\ pcRun' = "PrintLabels"
          /\ runErr' = runErr
    /\ UNCHANGED <<PullRequest, Prefix, GitURL, BRANCH_NAME, flagPR, flagPrefix, prNum,
                   warnLog, labelIdx, envKeys, stdout>>

\* lines 133-137, one iteration of the range loop; *v.Name panics on a nil Name
PrintLabel ==
    /\ pcRun = "PrintLabels"
    /\ UNCHANGED <<normVars, regexVars, appVars, branchVars>>
    /\ labelIdx <= Len(Labels)
    /\ IF Labels[labelIdx].hasName
       THEN /\ stdout' = stdout \o Printf(Prefix, Labels[labelIdx].Name)
            /\ envKeys' = Append(envKeys, EnvKey(Labels[labelIdx].Name))
            /\ labelIdx' = labelIdx + 1
            /\ UNCHANGED <<pcRun, runErr>>
       ELSE /\ Return("panic: nil pointer dereference")
            /\ UNCHANGED <<stdout, envKeys, labelIdx>>
    /\ UNCHANGED <<PullRequest, Prefix, GitURL, BRANCH_NAME, flagPR, flagPrefix, prNum,
                   warnLog, getPRCalls, Labels>>

\* line 138
ReturnNil ==
    /\ pcRun = "PrintLabels"
    /\ UNCHANGED <<normVars, regexVars, appVars, branchVars>>
    /\ labelIdx > Len(Labels)
    /\ Return("nil")
    /\ UNCHANGED <<PullRequest, Prefix, GitURL, BRANCH_NAME, flagPR, flagPrefix, prNum,
                   warnLog, getPRCalls, Labels, labelIdx, envKeys, stdout>>

NextLabels ==
    \/ CreateGitProvider
    \/ ResolveOptions
    \/ ParseGitURL
    \/ GetPullRequest
    \/ PrintLabel
    \/ ReturnNil

SpecLabels == InitLabels /\ [][NextLabels]_vars

(***************************************************************************)
(* Properties of jx step pr labels                                         *)
(***************************************************************************)
\* Run got past the provider lookup and resolved o.PullRequest (lines 99-101)
ProviderFound == runErr \notin {"CreateGitProviderError", "NoGitProvider"}
PastResolve ==
    \/ pcRun \in {"ParseGitURL", "GetPullRequest", "PrintLabels"}
    \/ pcRun = "done" /\ ProviderFound

\* the text of standard output cut into lines at "\n"
RECURSIVE SplitLines(_)
SplitLines(s) ==
    IF s = <<>> THEN <<>>
    ELSE IF \E k \in 1..Len(s) : s[k] = "\n"
         THEN LET k == CHOOSE k \in 1..Len(s) : s[k] = "\n" /\ \A j \in 1..(k - 1) : s[j] # "\n"
              IN  <<SubSeq(s, 1, k - 1)>> \o SplitLines(SubSeq(s, k + 1, Len(s)))
         ELSE <<s>>

\* C1: an explicit --pr of 34 and an explicit --pr of PR-34 both make Run call
\* GetPullRequest for pull request 34.
C1_ExplicitPRResolvesTo34 ==
    (flagPR \in {<<"3","4">>, <<"P","R","-","3","4">>} /\ getPRCalls # <<>>)
        => getPRCalls = <<34>>

\* C3: when Run succeeds on a pull request with n labels, standard output holds
\* exactly n lines, in label order, line i being <PREFIX>_<NORMALIZED_NAME>='<label>'
\* with PREFIX the configured prefix or JX_PR_LABELS.
C3_ExpectedLine(i) ==
    (IF flagPrefix = <<>> THEN <<"J","X","_","P","R","_","L","A","B","E","L","S">>
     ELSE flagPrefix)
    \o <<"_">> \o EnvKey(Labels[i].Name) \o <<"=", "'">> \o Labels[i].Name \o <<"'">>
C3_OneLinePerLabel ==
    runErr = "nil" => SplitLines(stdout) = [i \in 1..Len(Labels) |-> C3_ExpectedLine(i)]

\* C4: the identifier Run uses (once it has a git provider, lines 91-97, which is
\* where it resolves one) is the --pr value when that is non-empty, whatever
\* BRANCH_NAME holds, else BRANCH_NAME without a leading PR-; when that is empty, Run
\* returns MissingOption(pr), and in no run does it then call GetPullRequest or print.
C4_ExpectedIdentifier ==
    IF flagPR # <<>> THEN flagPR
    ELSE IF Len(BRANCH_NAME) >= 3 /\ SubSeq(BRANCH_NAME, 1, 3) = <<"P","R","-">>
         THEN SubSeq(BRANCH_NAME, 4, Len(BRANCH_NAME))
         ELSE BRANCH_NAME
C4_IdentifierResolution ==
    /\ PastResolve => PullRequest = C4_ExpectedIdentifier
    /\ pcRun \in {"ParseGitURL", "GetPullRequest", "PrintLabels"} => PullRequest # <<>>
    /\ C4_ExpectedIdentifier = <<>> =>
          /\ getPRCalls = <<>>
          /\ stdout = <<>>
          /\ (pcRun = "done" /\ ProviderFound) => runErr = "MissingOption(pr)"
    /\ runErr = "MissingOption(pr)" => C4_ExpectedIdentifier = <<>>
C4_Witness ==
    /\ pcRun = "done"
    /\ runErr = "MissingOption(pr)"
    /\ flagPR = <<>>
    /\ BRANCH_NAME = <<"P","R","-">>

\* C5 as claimed: when the identifier does not parse as a number, what the provider
\* lookup receives is the original string form of the identifier.
C5_OriginalStringPassed ==
    (warnLog # <<>> /\ getPRCalls # <<>>) => Itoa(getPRCalls[1]) = PullRequest

\* C5 as amended: when the resolved identifier does not parse as a number, Run logs
\* one warning naming it and goes on (it never returns because of the parse), and
\* the provider lookup is called with the number 0.
C5_ParseFailurePassesZero ==
    /\ (PastResolve /\ PullRequest # <<>> /\ ~AtoiOk(PullRequest)) =>
          /\ warnLog = <<PullRequest>>
          /\ pcRun = "done" =>
                runErr \in {"ParseGitURLError", "GetPullRequestError", "nil",
                            "panic: nil pointer dereference"}
          /\ (pcRun \in {"PrintLabels", "done"} /\ runErr # "ParseGitURLError") =>
                getPRCalls = <<0>>
    /\ warnLog # <<>> => ~AtoiOk(PullRequest)
C5_Witness ==
    /\ flagPR = <<"a","b","c">>
    /\ warnLog = <<<<"a","b","c">>>>
    /\ getPRCalls = <<0>>
    /\ runErr = "nil"

\* C9: normalization never fails and every label of the pull request, one with an
\* empty or absent name included, yields a non-empty token of A-Z, 0-9 and _ only.
C9_TokensWellFormed ==
    /\ runErr # "panic: nil pointer dereference"
    /\ \A i \in 1..Len(envKeys) :
          /\ envKeys[i] # <<>>
          /\ \A j \in 1..Len(envKeys[i]) : envKeys[i][j] \in Upper \cup Digits \cup {"_"}

(***************************************************************************)
(* Label name normalization, applied to every name over an alphabet that   *)
(* has letters of both cases, a digit and three characters outside the     *)
(* class, and applied again to its own result                              *)
(***************************************************************************)
MaxNameLen == 4
NameAlphabet == {"a", "Z", "7", "-", "_", " "}

InitNormalize ==
    /\ IdleLabels
    /\ IdleRegex
    /\ IdleApp
    /\ IdleBranch
    /\ pcNorm = "name"
    /\ normName \in SeqsUpTo(NameAlphabet, MaxNameLen)
    /\ normOnce = <<>>
    /\ normTwice = <<>>

\* lines 134 and 136 on normName
NormalizeName ==
    /\ pcNorm = "name"
    /\ normOnce' = EnvKey(normName)
    /\ pcNorm' = "once"
    /\ UNCHANGED <<normName, normTwice, labelVars, regexVars, appVars, branchVars>>

\* lines 134 and 136 on the token they gave
NormalizeToken ==
    /\ pcNorm = "once"
    /\ normTwice' = EnvKey(normOnce)
    /\ pcNorm' = "twice"
    /\ UNCHANGED <<normName, normOnce, labelVars, regexVars, appVars, branchVars>>

NextNormalize == NormalizeName \/ NormalizeToken

SpecNormalize == InitNormalize /\ [][NextNormalize]_vars

\* C8: normalizing a normalized label name gives it back:
\* normalize(normalize(x)) = normalize(x) for every name x.
C8_NormalizeIdempotent == pcNorm = "twice" => normTwice = normOnce
C8_Witness ==
    /\ pcNorm = "twice"
    /\ normName = <<"a", "-", " ", "Z">>
    /\ normOnce = <<"A", "_", "Z">>

(***************************************************************************)
(* jx step create pr regex: ValidateRegexOptions                           *)
(***************************************************************************)
MaxPatLen == 4
MaxValidations == 2
PatAlphabet == {"(", "?", "m", ")", "x"}

\* lines 94-97: the regexp is made multi-line
EnsureMultiLineAlways(re) == <<"(", "?", "m", ")">> \o re
EnsureMultiLine(re) ==
    IF ~HasPrefix(re, <<"(", "?", "m">>) THEN <<"(", "?", "m", ")">> \o re ELSE re

InitRegex ==
    /\ IdleLabels
    /\ IdleNorm
    /\ IdleApp
    /\ IdleBranch
    /\ Regexp \in SeqsUpTo(PatAlphabet, MaxPatLen)
    /\ SrcGitURL \in {"", "https://github.com/org/src.git"}
    /\ Kind \in {"", "custom"}
    /\ validateLog = <<>>

\* lines 87-106; ValidateOptions(false) of StepCreatePrOptions may fail
ValidateRegexOptions ==
    /\ Len(validateLog) < MaxValidations
    /\ \E validateOptionsOk \in BOOLEAN :
          IF ~validateOptionsOk
          THEN /\ validateLog' = Append(validateLog,
                     [before |-> Regexp, after |-> Regexp, err |-> "ValidateOptionsError"])
               /\ UNCHANGED <<Regexp, Kind>>
          ELSE IF Regexp = <<>>
          THEN /\ validateLog' = Append(validateLog,
                     [before |-> Regexp, after |-> Regexp, err |-> "MissingOption(regex)"])
               /\ UNCHANGED <<Regexp, Kind>>
          ELSE /\ Regexp' = EnsureMultiLine(Regexp)
               /\ Kind' = IF Kind = "" THEN "regex" ELSE Kind
               /\ validateLog' = Append(validateLog,
                     [before |-> Regexp, after |-> Regexp', err |-> "nil"])
    /\ UNCHANGED <<SrcGitURL, labelVars, normVars, appVars, branchVars>>

NextRegex == ValidateRegexOptions

SpecRegex == InitRegex /\ [][NextRegex]_vars

\* C10: a successful ValidateRegexOptions leaves a pattern that begins with (?m
\* unchanged, turns any other non-empty pattern p into (?m)p, so the pattern then
\* begins with (?m, and a later successful validation does not change it again.
C10_MultiLineOnce ==
    /\ \A i \in 1..Len(validateLog) :
          validateLog[i].err = "nil" =>
             LET p == validateLog[i].before
                 q == validateLog[i].after
             IN  /\ p # <<>>
                 /\ Len(q) >= 3 /\ q[1] = "(" /\ q[2] = "?" /\ q[3] = "m"
                 /\ IF Len(p) >= 3 /\ p[1] = "(" /\ p[2] = "?" /\ p[3] = "m"
                    THEN q = p
                    ELSE q = <<"(", "?", "m", ")">> \o p
    /\ \A i, j \in 1..Len(validateLog) :
          (i < j /\ validateLog[i].err = "nil" /\ validateLog[j].err = "nil") =>
             validateLog[j].after = validateLog[i].after
    /\ validateLog # <<>> => Regexp = validateLog[Len(validateLog)].after
C10_Witness ==
    /\ Len(validateLog) = 2
    /\ validateLog[1] = [before |-> <<"x", "(", "?", "m">>,
                         after |-> <<"(", "?", "m", ")", "x", "(", "?", "m">>, err |-> "nil"]
    /\ validateLog[2].err = "nil"
    /\ Regexp = <<"(", "?", "m", ")", "x", "(", "?", "m">>

(***************************************************************************)
(* jx add app                                                              *)
(***************************************************************************)
MaxSecrets == 2

DEFAULT_CHARTMUSEUM_URL == "http://chartmuseum.jenkins-x.io"
DefaultNamespace == "jx"
TeamName == <<"t", "e", "a", "m", "1">>
ValuesFile == "app-values.yaml"
SecretsFile == "app-secrets.yaml"
SecretTemplateFile == "templates/app-generated-secret-template.yaml"

\* strings.Join(parts, sep)
RECURSIVE Join(_, _)
Join(parts, sep) ==
    IF parts = <<>> THEN <<>>
    ELSE IF Len(parts) = 1 THEN parts[1]
    ELSE parts[1] \o sep \o Join(Tail(parts), sep)

\* A git URL is the sequence of its host, organisation and repository name;
\* gits.ParseGitURL gives the last two, and fails on anything else
GoodURL == << <<"g", "h">>, <<"o", "r", "g">>, <<"e", "n", "v">> >>
BadURL == << <<"b", "a", "d">> >>
ParsedGitURL(url) ==
    [ok |-> Len(url) = 3,
     Organisation |-> IF Len(url) = 3 THEN url[2] ELSE <<>>,
     Name |-> IF Len(url) = 3 THEN url[3] ELSE <<>>]

\* GetDevEnv: gitOps is whether the dev environment has a source URL
GetDevEnv(devEnv) == devEnv.SourceURL # <<>>

\* lines 129-134: o.Repo
DefaultRepo(repo, devEnv) ==
    IF repo # "" THEN repo
    ELSE IF devEnv.AppsRepository # "" THEN devEnv.AppsRepository
    ELSE DEFAULT_CHARTMUSEUM_URL

\* lines 135-174: the error Run returns before it inspects the chart, "nil" if none
OptionsErrorVaultUnchecked(opts, gitOps, vault) ==
    IF gitOps /\ opts.ReleaseName # "" THEN "InvalidOption(release)"
    ELSE IF gitOps /\ ~opts.HelmUpdate THEN "InvalidOption(helm-update)"
    ELSE IF gitOps /\ opts.Namespace # "" /\ opts.Namespace # DefaultNamespace
         THEN "InvalidOption(namespace)"
    ELSE IF gitOps /\ Len(opts.SetValues) > 0 THEN "InvalidOption(set)"
    ELSE IF gitOps /\ Len(opts.ValuesFiles) > 1 THEN "InvalidOption(values)"
    ELSE IF ~gitOps /\ opts.Alias # "" THEN "InvalidOption(alias)"
    ELSE IF Len(opts.Args) = 0 \/ Len(opts.Args) > 1 THEN "Help"
    ELSE IF opts.Repo = "" THEN "must specify a repository"
    ELSE "nil"
OptionsError(opts, gitOps, vault) ==
    IF gitOps /\ opts.ReleaseName # "" THEN "InvalidOption(release)"
    ELSE IF gitOps /\ ~opts.HelmUpdate THEN "InvalidOption(helm-update)"
    ELSE IF gitOps /\ opts.Namespace # "" /\ opts.Namespace # DefaultNamespace
         THEN "InvalidOption(namespace)"
    ELSE IF gitOps /\ Len(opts.SetValues) > 0 THEN "InvalidOption(set)"
    ELSE IF gitOps /\ Len(opts.ValuesFiles) > 1 THEN "InvalidOption(values)"
    ELSE IF gitOps /\ ~vault
         THEN "cannot install apps without a vault when using GitOps for your dev environment"
    ELSE IF ~gitOps /\ opts.Alias # "" THEN "InvalidOption(alias)"
    ELSE IF Len(opts.Args) = 0 \/ Len(opts.Args) > 1 THEN "Help"
    ELSE IF opts.Repo = "" THEN "must specify a repository"
    ELSE "nil"

\* initVault, lines 129-142: vaultBasepath
VaultBasepathTeams(gitOps, gitInfo, teamName) ==
    Join(<< <<"t","e","a","m","s">>, teamName >>, <<"/">>)
VaultBasepath(gitOps, gitInfo, teamName) ==
    IF gitOps
    THEN Join(<< <<"g","i","t","O","p","s">>, gitInfo.Organisation, gitInfo.Name >>, <<"/">>)
    ELSE Join(<< <<"t","e","a","m","s">>, teamName >>, <<"/">>)

\* handleSecrets, line 161: path
SecretPath(vaultBasepath, secret) == Join(<<vaultBasepath, secret.Name>>, <<"/">>)

\* handleSecrets, lines 160-168: the vault.WriteMap calls of the loop over secs, the
\* failAt-th of which fails and ends the loop (none fails when failAt = 0)
VaultWrites(vaultBasepath, secs, failAt) ==
    [i \in 1..(IF failAt = 0 THEN Len(secs) ELSE failAt) |->
        [path |-> SecretPath(vaultBasepath, secs[i]),
         data |-> (secs[i].Key :> secs[i].Value),
         ok |-> i # failAt]]

\* handleSecrets, lines 155 and 169: which of the two ways the secrets go
UsesStore(vault) == vault
UsesTemplateAlways(vault) == TRUE
UsesTemplate(vault) == ~vault

\* createPR, line 247: branchNameText
BranchNameOfApp(app, ver) == <<"a","d","d","-","a","p","p","-">> \o app
BranchName(app, ver) == <<"a","d","d","-","a","p","p","-">> \o app \o <<"-">> \o ver

GeneratedSecrets ==
    { [Name |-> <<"s", "1">>, Key |-> "k1", Value |-> "v1"],
      [Name |-> <<"s", "2">>, Key |-> "k2", Value |-> "v2"],
      [Name |-> <<"s", "1">>, Key |-> "k2", Value |-> "v1"] }
SecretLists == SeqsUpTo(GeneratedSecrets, MaxSecrets)
ChartVersions == { <<"1", ".", "0">>, <<"2", ".", "1">> }

OptionValues ==
    LET oneFlag ==
          { NoOptions,
            [NoOptions EXCEPT !.Repo = "http://charts.example"],
            [NoOptions EXCEPT !.ReleaseName = "rel"],
            [NoOptions EXCEPT !.HelmUpdate = FALSE],
            [NoOptions EXCEPT !.Namespace = DefaultNamespace],
            [NoOptions EXCEPT !.Namespace = "other"],
            [NoOptions EXCEPT !.SetValues = <<"a=b">>],
            [NoOptions EXCEPT !.ValuesFiles = <<"my-values.yaml">>],
            [NoOptions EXCEPT !.ValuesFiles = <<"my-values.yaml", "more-values.yaml">>],
            [NoOptions EXCEPT !.Alias = "alias"],
            [NoOptions EXCEPT !.Args = <<>>],
            [NoOptions EXCEPT !.Args = <<AppName, AppName>>] }
    IN  {[f EXCEPT !.Version = v] : f \in oneFlag, v \in {<<>>, <<"1", ".", "0">>}}

InitApp ==
    /\ IdleLabels
    /\ IdleNorm
    /\ IdleRegex
    /\ IdleBranch
    /\ pcApp = "Run"
    /\ o \in OptionValues
    /\ GitOps = FALSE
    /\ DevEnv \in [SourceURL : {<<>>, GoodURL, BadURL}, AppsRepository : {"", "http://apps.example"}]
    /\ useVault \in BOOLEAN
    /\ version = <<>>
    /\ schema = FALSE
    /\ secrets = <<>>
    /\ tempCreated = {}
    /\ tempFiles = {}
    /\ chartFiles = {}
    /\ vaultCalls = <<>>
    /\ deferred = <<>>
    /\ hsErr = "none"
    /\ applied = <<>>
    /\ appErr = "none"

\* The callback returns err: its deferred close functions run, last first; one that
\* closes a file deletes it, one whose file is nil panics in valuesFile.Name() (the
\* others still run), and the error goes through helm.InspectChart to Run's caller
DeferredFiles(defers) == {defers[i] : i \in DOMAIN defers} \ {"noop", "closeNil"}
CallbackReturn(err, defers, files) ==
    /\ pcApp' = "done"
    /\ deferred' = <<>>
    /\ tempFiles' = files \ DeferredFiles(defers)
    /\ appErr' = IF \E i \in DOMAIN defers : defers[i] = "closeNil"
                 THEN "panic: nil pointer dereference"
                 ELSE err

\* lines 128-180
RunOptions ==
    /\ pcApp = "Run"
    /\ UNCHANGED <<labelVars, normVars, regexVars, branchVars>>
    /\ GitOps' = GetDevEnv(DevEnv)
    /\ o' = [o EXCEPT !.Repo = DefaultRepo(o.Repo, DevEnv)]
    /\ LET err == OptionsError(o', GitOps', useVault)
       IN  IF err # "nil"
           THEN /\ pcApp' = "done"
                /\ appErr' = err
                /\ UNCHANGED version
           ELSE /\ pcApp' = "InspectChart"
                /\ version' = o.Version
                /\ UNCHANGED appErr
    /\ UNCHANGED <<DevEnv, useVault, schema, secrets, tempCreated, tempFiles, chartFiles,
                   vaultCalls, deferred, hsErr, applied>>

\* line 238: helm.InspectChart fetches the chart and calls inspectChartFunc, or fails
InspectChart ==
    /\ pcApp = "InspectChart"
    /\ UNCHANGED <<labelVars, normVars, regexVars, branchVars>>
    /\ \E fetched \in BOOLEAN :
          IF fetched
          THEN pcApp' = "LoadVersion" /\ UNCHANGED appErr
          ELSE pcApp' = "done" /\ appErr' = "InspectChartError"
    /\ UNCHANGED <<o, GitOps, DevEnv, useVault, version, schema, secrets, tempCreated,
                   tempFiles, chartFiles, vaultCalls, deferred, hsErr, applied>>

\* lines 184-193
LoadVersion ==
    /\ pcApp = "LoadVersion"
    /\ UNCHANGED <<labelVars, normVars, regexVars, branchVars>>
    /\ IF version # <<>>
       THEN /\ pcApp' = "ReadSchema"
            /\ UNCHANGED <<version, appErr, deferred, tempFiles>>
       ELSE \E loaded \in ChartVersions \cup {<<>>} :
               IF loaded = <<>>
               THEN /\ CallbackReturn("error loading chart from dir: LoadChartError",
                                      deferred, tempFiles)
                    /\ UNCHANGED version
               ELSE /\ version' = loaded
                    /\ pcApp' = "ReadSchema"
                    /\ UNCHANGED <<appErr, deferred, tempFiles>>
    /\ UNCHANGED <<o, GitOps, DevEnv, useVault, schema, secrets, tempCreated, chartFiles,
                   vaultCalls, hsErr, applied>>

\* lines 194-200
ReadSchema ==
    /\ pcApp = "ReadSchema"
    /\ UNCHANGED <<labelVars, normVars, regexVars, branchVars>>
    /\ \E outcome \in {"absent", "read", "ReadFileError"} :
          IF outcome = "ReadFileError"
          THEN /\ CallbackReturn("error reading schema file: ReadFileError",
                                 deferred, tempFiles)
               /\ UNCHANGED schema
          ELSE /\ schema' = (outcome = "read")
               /\ pcApp' = IF schema' THEN "GenerateQuestions" ELSE "Apply"
               /\ UNCHANGED <<appErr, deferred, tempFiles>>
    /\ UNCHANGED <<o, GitOps, DevEnv, useVault, version, secrets, tempCreated, chartFiles,
                   vaultCalls, hsErr, applied>>

\* lines 202-209, generateQuestions
GenerateQuestions ==
    /\ pcApp = "GenerateQuestions"
    /\ UNCHANGED <<labelVars, normVars, regexVars, branchVars>>
    /\ \E generated \in BOOLEAN :
          IF generated
          THEN /\ secrets' \in SecretLists
               /\ pcApp' = "HandleValues"
               /\ UNCHANGED <<appErr, deferred, tempFiles>>
          ELSE /\ CallbackReturn("asking questions for schema: GenerateValuesError",
                                 deferred, tempFiles)
               /\ UNCHANGED secrets
    /\ UNCHANGED <<o, GitOps, DevEnv, useVault, version, schema, tempCreated, chartFiles,
                   vaultCalls, hsErr, applied>>

\* lines 210-214 and handleValues: the values go to a temporary file whose close
\* function is deferred before the error is looked at
HandleValues ==
    /\ pcApp = "HandleValues"
    /\ UNCHANGED <<labelVars, normVars, regexVars, branchVars>>
    /\ \E outcome \in {"ok", "JSONToYAMLError", "TempFileError", "WriteError"} :
          LET created == outcome \in {"ok", "WriteError"}
              closeFn == CASE outcome = "JSONToYAMLError" -> "noop"
                           [] outcome = "TempFileError" -> "closeNil"
                           [] OTHER -> ValuesFile
              files == IF created THEN tempFiles \cup {ValuesFile} ELSE tempFiles
              err == CASE outcome = "ok" -> "nil"
                       [] outcome = "JSONToYAMLError" ->
                             "error converting values from json to yaml: JSONToYAMLError"
                       [] OTHER -> outcome
          IN  /\ tempCreated' = IF created THEN tempCreated \cup {ValuesFile} ELSE tempCreated
              /\ IF err = "nil"
                 THEN /\ o' = [o EXCEPT !.ValuesFiles = Append(@, ValuesFile)]
                      /\ deferred' = Append(deferred, closeFn)
                      /\ tempFiles' = files
                      /\ pcApp' = "HandleSecrets"
                      /\ UNCHANGED appErr
                 ELSE /\ CallbackReturn(err, Append(deferred, closeFn), files)
                      /\ UNCHANGED o
    /\ UNCHANGED <<GitOps, DevEnv, useVault, version, schema, secrets, chartFiles,
                   vaultCalls, hsErr, applied>>

\* lines 215-219 and handleSecrets with initVault
HandleSecrets ==
    /\ pcApp = "HandleSecrets"
    /\ UNCHANGED <<labelVars, normVars, regexVars, branchVars>>
    /\ \E initOutcome \in {"ok", "TeamAndEnvironmentNamesError", "CreateSystemVaultClientError"},
          failAt \in 0..Len(secrets),
          fileOutcome \in {"ok", "MkdirAllError", "WriteFileError", "MarshalError",
                           "TempFileError", "WriteError"} :
          LET gitInfo == ParsedGitURL(DevEnv.SourceURL)
              store == Len(secrets) > 0 /\ UsesStore(useVault)
              initErr == IF ~store THEN "nil"
                         ELSE IF GitOps /\ ~gitInfo.ok THEN "ParseGitURLError"
                         ELSE IF ~GitOps /\ initOutcome = "TeamAndEnvironmentNamesError"
                              THEN initOutcome
                         ELSE IF initOutcome = "CreateSystemVaultClientError" THEN initOutcome
                         ELSE "nil"
              calls == IF store /\ initErr = "nil"
                       THEN VaultWrites(VaultBasepath(GitOps, gitInfo, TeamName), secrets, failAt)
                       ELSE <<>>
              storeErr == IF initErr # "nil" THEN initErr
                          ELSE IF \E i \in DOMAIN calls : ~calls[i].ok THEN "WriteMapError"
                          ELSE "nil"
              embed == Len(secrets) > 0 /\ UsesTemplate(useVault) /\ storeErr = "nil"
              templateWritten == embed /\ fileOutcome \notin {"MkdirAllError", "WriteFileError"}
              created == embed /\ fileOutcome \in {"ok", "WriteError"}
              \* line 212 returns func() {} where handleValues returns close
              closeFn == IF embed /\ fileOutcome = "TempFileError" THEN "closeNil"
                         ELSE IF embed /\ fileOutcome = "WriteError" THEN SecretsFile
                         ELSE "noop"
              err == IF storeErr # "nil" THEN storeErr
                     ELSE IF embed /\ fileOutcome # "ok" THEN fileOutcome
                     ELSE "nil"
              files == IF created THEN tempFiles \cup {SecretsFile} ELSE tempFiles
          IN  /\ vaultCalls' = vaultCalls \o calls
              /\ chartFiles' = IF templateWritten THEN chartFiles \cup {SecretTemplateFile}
                               ELSE chartFiles
              /\ tempCreated' = IF created THEN tempCreated \cup {SecretsFile} ELSE tempCreated
              /\ hsErr' = err
              /\ IF err = "nil"
                 THEN /\ o' = IF embed THEN [o EXCEPT !.ValuesFiles = Append(@, SecretsFile)]
                              ELSE o
                      /\ deferred' = Append(deferred, closeFn)
                      /\ tempFiles' = files
                      /\ pcApp' = "Apply"
                      /\ UNCHANGED appErr
                 ELSE /\ CallbackReturn(err, Append(deferred, closeFn), files)
                      /\ UNCHANGED o
    /\ UNCHANGED <<GitOps, DevEnv, useVault, version, schema, secrets, applied>>

\* lines 223-234 with createPR and installApp, then the return of the callback
Apply ==
    /\ pcApp = "Apply"
    /\ UNCHANGED <<labelVars, normVars, regexVars, branchVars>>
    /\ \E outcome \in {"nil", "ensureHelmError", "installChartError", "OnAppInstallError",
                       "createEnvironmentPullRequestError"} :
          /\ IF GitOps
             THEN outcome \in {"nil", "createEnvironmentPullRequestError"}
             ELSE outcome # "createEnvironmentPullRequestError"
          /\ applied' = Append(applied,
                [op |-> IF GitOps THEN "createPR" ELSE "installApp",
                 app |-> o.Args[1],
                 version |-> version,
                 branch |-> IF GitOps THEN BranchName(o.Args[1], version) ELSE <<>>,
                 ValuesFiles |-> o.ValuesFiles,
                 chartFiles |-> chartFiles])
          /\ CallbackReturn(
                CASE outcome = "nil" -> "nil"
                  [] outcome = "createEnvironmentPullRequestError" ->
                        "creating pr for app: createEnvironmentPullRequestError"
                  [] outcome = "ensureHelmError" ->
                        "failed to ensure that helm is present: ensureHelmError"
                  [] outcome = "installChartError" ->
                        "failed to install name app: installChartError"
                  [] OTHER -> outcome,
                deferred, tempFiles)
    /\ UNCHANGED <<o, GitOps, DevEnv, useVault, version, schema, secrets, tempCreated,
                   chartFiles, vaultCalls, hsErr>>

NextApp ==
    \/ RunOptions
    \/ InspectChart
    \/ LoadVersion
    \/ ReadSchema
    \/ GenerateQuestions
    \/ HandleValues
    \/ HandleSecrets
    \/ Apply

SpecApp == InitApp /\ [][NextApp]_vars

\* jx add app is run again with the command line of the run that ended (a retry of
\* the same logical change): Run starts over in a new process, its options as given
\* (before o.Repo was defaulted and the generated files were appended to
\* o.ValuesFiles), with the chart fetched again; applied keeps what the earlier
\* invocations did
MaxRuns == 2

Retry ==
    /\ pcApp = "done"
    /\ Len(applied) < MaxRuns
    /\ UNCHANGED <<labelVars, normVars, regexVars, branchVars>>
    /\ pcApp' = "Run"
    /\ o' \in {x \in OptionValues :
                 /\ [x EXCEPT !.Repo = o.Repo, !.ValuesFiles = o.ValuesFiles] = o
                 /\ DefaultRepo(x.Repo, DevEnv) = o.Repo
                 /\ Len(x.ValuesFiles) <= Len(o.ValuesFiles)
                 /\ SubSeq(o.ValuesFiles, 1, Len(x.ValuesFiles)) = x.ValuesFiles}
    /\ GitOps' = FALSE
    /\ version' = <<>>
    /\ schema' = FALSE
    /\ secrets' = <<>>
    /\ tempCreated' = {}
    /\ tempFiles' = {}
    /\ chartFiles' = {}
    /\ vaultCalls' = <<>>
    /\ deferred' = <<>>
    /\ hsErr' = "none"
    /\ appErr' = "none"
    /\ UNCHANGED <<DevEnv, useVault, applied>>

NextRetry == NextApp \/ Retry

\* The retried change is a pull request: the dev environment is GitOps-managed
InitRetry == InitApp /\ DevEnv = [SourceURL |-> GoodURL, AppsRepository |-> ""]

SpecRetry == InitRetry /\ [][NextRetry]_vars

(***************************************************************************)
(* metapipeline: the branch identifier of a pipeline                       *)
(***************************************************************************)
MaxPullRequests == 2

ReleasePipeline == "release"
PullRequestPipeline == "pullrequest"
NoPullRequestsError == "pullrequest pipeline requested, but no pull requests specified"

\* PullRequestRef{ID: id}; the merge SHA plays no part in the identifier
PullRequestRef(id) == [ID |-> id]
\* NewPullRef and NewPullRefWithPullRequest, without the source URL and the base SHA
NewPullRef(baseBranch) == [baseBranch |-> baseBranch, pullRequests |-> <<>>]
NewPullRefWithPullRequest(baseBranch, prs) == [baseBranch |-> baseBranch, pullRequests |-> prs]

BaseBranches == { <<"m","a","s","t","e","r">>, <<"d","e","v">>, <<"r","e","l","-","1">> }
PullRequestIDs == { <<"4","5","5","4">>, <<"7">>, <<>> }
PullRefs ==
    {NewPullRef(b) : b \in BaseBranches}
       \cup {NewPullRefWithPullRequest(b, prs) :
                b \in BaseBranches,
                prs \in SeqsUpTo({PullRequestRef(id) : id \in PullRequestIDs}, MaxPullRequests) \ {<<>>}}

\* clientFactory.determineBranchIdentifier: the identifier and the error
determineBranchIdentifierUnchecked(pipelineType, ref) ==
    IF pipelineType = ReleasePipeline \/ Len(ref.pullRequests) = 0
    THEN [branch |-> ref.baseBranch, err |-> "nil"]
    ELSE [branch |-> <<"P","R","-">> \o ref.pullRequests[1].ID, err |-> "nil"]
determineBranchIdentifier(pipelineType, ref) ==
    IF pipelineType = ReleasePipeline
    THEN [branch |-> ref.baseBranch, err |-> "nil"]
    ELSE IF Len(ref.pullRequests) = 0
    THEN [branch |-> <<>>, err |-> NoPullRequestsError]
    ELSE [branch |-> <<"P","R","-">> \o ref.pullRequests[1].ID, err |-> "nil"]

InitBranch ==
    /\ IdleLabels
    /\ IdleNorm
    /\ IdleRegex
    /\ IdleApp
    /\ pcBranch = "call"
    /\ pipelineKind \in {ReleasePipeline, PullRequestPipeline}
    /\ pullRef \in PullRefs
    /\ branchIdentifier = <<>>
    /\ branchErr = "none"

DetermineBranchIdentifier ==
    /\ pcBranch = "call"
    /\ UNCHANGED <<labelVars, normVars, regexVars, appVars>>
    /\ LET r == determineBranchIdentifier(pipelineKind, pullRef)
       IN  /\ branchIdentifier' = r.branch
           /\ branchErr' = r.err
    /\ pcBranch' = "done"
    /\ UNCHANGED <<pipelineKind, pullRef>>

NextBranch == DetermineBranchIdentifier

SpecBranch == InitBranch /\ [][NextBranch]_vars

Init == InitLabels \/ InitNormalize \/ InitRegex \/ InitApp \/ InitBranch
Next == NextLabels \/ NextNormalize \/ NextRegex \/ NextApp \/ Retry \/ NextBranch
Spec == Init /\ [][Next]_vars

(***************************************************************************)
(* Properties of jx add app                                                *)
(***************************************************************************)
\* C2: handleSecrets never writes both to the secret store and to the chart (template
\* file, secrets values file): without UseVault there is no store write, with UseVault
\* no template file and no secrets values file is created, and a handleSecrets that
\* returns no error has made one store write per generated secret, two for two
\* secrets (one that returns an error stopped at the first write that failed).
C2_ExclusiveTwoWritesOnSuccess ==
    /\ ~(vaultCalls # <<>> /\ (SecretTemplateFile \in chartFiles \/ SecretsFile \in tempCreated))
    /\ hsErr = "none" =>
          (vaultCalls = <<>> /\ SecretTemplateFile \notin chartFiles /\ SecretsFile \notin tempCreated)
    /\ (hsErr # "none" /\ ~useVault) => vaultCalls = <<>>
    /\ (hsErr # "none" /\ useVault) =>
          /\ SecretTemplateFile \notin chartFiles
          /\ SecretsFile \notin tempCreated
          /\ Len(vaultCalls) <= Len(secrets)
          /\ \A i \in 1..Len(vaultCalls) : ~vaultCalls[i].ok => i = Len(vaultCalls)
    /\ (hsErr = "nil" /\ useVault) =>
          /\ Len(vaultCalls) = Len(secrets)
          /\ \A i \in 1..Len(vaultCalls) : vaultCalls[i].ok
C2_Witness ==
    /\ hsErr = "nil"
    /\ useVault
    /\ Len(secrets) = 2
    /\ Len(vaultCalls) = 2
    /\ chartFiles = {}

\* C6: when the chart-inspection callback has returned, with or without an error,
\* no temporary file made for the generated values or secrets remains.
C6_NoTempFileRemains == pcApp = "done" => tempFiles = {}

\* C7: every secret store write of handleSecrets goes to
\* gitOps/<org>/<repo>/<secret name> when the dev environment is GitOps-managed, org
\* and repo being those of its source URL, and to teams/<team>/<secret name>
\* otherwise, and writes a map of one entry, the secret's key to the secret's value.
C7_StorePathAndData ==
    \A i \in 1..Len(vaultCalls) :
       LET s == secrets[i]
           expected ==
              IF GitOps
              THEN <<"g","i","t","O","p","s","/">> \o DevEnv.SourceURL[2] \o <<"/">>
                      \o DevEnv.SourceURL[3] \o <<"/">> \o s.Name
              ELSE <<"t","e","a","m","s","/">> \o TeamName \o <<"/">> \o s.Name
       IN  /\ vaultCalls[i].path = expected
           /\ DOMAIN vaultCalls[i].data = {s.Key}
           /\ vaultCalls[i].data[s.Key] = s.Value
C7_Witness ==
    /\ GitOps
    /\ Len(vaultCalls) = 2
    /\ vaultCalls[2].ok
    /\ vaultCalls[2].path = <<"g","i","t","O","p","s","/","o","r","g","/","e","n","v","/","s","2">>

\* C11 (as claimed): any two invocations of Run for the same application and the
\* same requested version, a request that leaves the version unspecified included,
\* derive the same pull request branch name.
C11_SameRequestSameBranch ==
    \A i, j \in DOMAIN applied :
       (applied[i].op = "createPR" /\ applied[j].op = "createPR"
           /\ applied[i].app = applied[j].app)
       => applied[i].branch = applied[j].branch

\* C11 (amended): the branch name of every pull request is add-app-<name>-<version>,
\* the version being the requested one when one is requested and the one loaded from
\* the fetched chart otherwise, so that two invocations for the same application
\* derive the same branch name whenever they use the same version, as all
\* invocations that request the same version do.
C11_BranchOfNameAndVersion ==
    /\ \A i \in DOMAIN applied :
          applied[i].op = "createPR" =>
             /\ applied[i].branch =
                   <<"a","d","d","-","a","p","p","-">> \o applied[i].app \o <<"-">>
                      \o applied[i].version
             /\ applied[i].app = o.Args[1]
             /\ o.Version # <<>> => applied[i].version = o.Version
             /\ o.Version = <<>> => applied[i].version \in ChartVersions
    /\ \A i, j \in DOMAIN applied :
          (applied[i].op = "createPR" /\ applied[j].op = "createPR"
              /\ applied[i].version = applied[j].version)
          => applied[i].branch = applied[j].branch
C11_Witness ==
    /\ Len(applied) = 2
    /\ applied[1].op = "createPR"
    /\ applied[2].op = "createPR"
    /\ o.Version = <<"1", ".", "0">>
    /\ applied[1].branch = <<"a","d","d","-","a","p","p","-","a","p","p","-","1",".","0">>
    /\ applied[2].branch = applied[1].branch

\* C13: in the chart-inspection callback a schema evaluation failure, a secret store
\* write failure or a file I/O failure is returned to Run's caller as it is, not
\* wrapped, and after it no further secret is written and neither createPR nor
\* installApp is called.
C13_FailuresReturnedUnwrapped ==
    [][ /\ (pcApp = "GenerateQuestions" /\ pcApp' = "done")
              => appErr' = "GenerateValuesError"
        /\ (pcApp = "HandleValues" /\ pcApp' = "done"
               /\ appErr' # "error converting values from json to yaml: JSONToYAMLError")
              => appErr' \in {"TempFileError", "WriteError"}
        /\ (pcApp = "HandleSecrets" /\ pcApp' = "done"
               /\ hsErr' \in {"WriteMapError", "MkdirAllError", "WriteFileError",
                               "TempFileError", "WriteError"})
              => appErr' = hsErr'
        /\ (pcApp \in {"GenerateQuestions", "HandleValues", "HandleSecrets"}
               /\ pcApp' = "done")
              => /\ applied' = <<>>
                 /\ \A i \in DOMAIN vaultCalls' : ~vaultCalls'[i].ok => i = Len(vaultCalls')
        /\ pcApp = "done" => UNCHANGED <<vaultCalls, chartFiles, tempCreated, applied>>
      ]_vars

\* C14: when the dev environment is GitOps-managed, Run never embeds generated
\* secrets in the chart: without a vault it fails before it inspects the chart (with
\* the error that a vault is needed, unless one of the option checks before that one
\* has already rejected a flag), and with a vault every generated secret goes to the
\* secret store, so that the secret template file and the secrets values file are
\* never written and no pull request is created from a chart that holds them.
C14_GitOpsNeverEmbedsSecrets ==
    GitOps =>
       /\ SecretTemplateFile \notin chartFiles
       /\ SecretsFile \notin tempCreated
       /\ \A i \in DOMAIN o.ValuesFiles : o.ValuesFiles[i] # SecretsFile
       /\ ~useVault =>
             /\ pcApp = "done"
             /\ appErr \in {"InvalidOption(release)", "InvalidOption(helm-update)",
                             "InvalidOption(namespace)", "InvalidOption(set)",
                             "InvalidOption(values)",
                             "cannot install apps without a vault when using GitOps for your dev environment"}
             /\ (o.ReleaseName = "" /\ o.HelmUpdate /\ o.Namespace \in {"", DefaultNamespace}
                    /\ Len(o.SetValues) = 0 /\ Len(o.ValuesFiles) <= 1)
                   => appErr = "cannot install apps without a vault when using GitOps for your dev environment"
             /\ version = <<>>
             /\ ~schema
             /\ vaultCalls = <<>>
             /\ applied = <<>>
       /\ hsErr = "nil" =>
             /\ Len(vaultCalls) = Len(secrets)
             /\ \A i \in DOMAIN vaultCalls : vaultCalls[i].ok
       /\ \A i \in DOMAIN applied :
             /\ applied[i].op = "createPR"
             /\ SecretTemplateFile \notin applied[i].chartFiles
             /\ \A j \in DOMAIN applied[i].ValuesFiles :
                   applied[i].ValuesFiles[j] # SecretsFile
             /\ hsErr \in {"none", "nil"}
C14_Witness ==
    /\ GitOps
    /\ useVault
    /\ pcApp = "done"
    /\ appErr = "nil"
    /\ Len(secrets) = 2
    /\ Len(vaultCalls) = 2
    /\ Len(applied) = 1
    /\ applied[1].op = "createPR"
    /\ applied[1].chartFiles = {}
    /\ applied[1].ValuesFiles = <<ValuesFile>>

(***************************************************************************)
(* Properties of the branch identifier                                     *)
(***************************************************************************)
\* C12: determineBranchIdentifier returns the base branch name for a release
\* pipeline, PR-<id> for a pull request pipeline whose pull ref carries a pull
\* request with that id, both without an error, and for a pull request pipeline whose
\* pull ref carries no pull request the empty identifier with the error
\* "pullrequest pipeline requested, but no pull requests specified".
C12_BranchIdentifier ==
    pcBranch = "done" =>
       /\ pipelineKind = ReleasePipeline =>
             branchIdentifier = pullRef.baseBranch /\ branchErr = "nil"
       /\ (pipelineKind = PullRequestPipeline /\ pullRef.pullRequests # <<>>) =>
             /\ \E i \in DOMAIN pullRef.pullRequests :
                   branchIdentifier = <<"P","R","-">> \o pullRef.pullRequests[i].ID
             /\ branchErr = "nil"
       /\ (pipelineKind = PullRequestPipeline /\ pullRef.pullRequests = <<>>) =>
             /\ branchIdentifier = <<>>
             /\ branchErr = "pullrequest pipeline requested, but no pull requests specified"
C12_Witness ==
    /\ pcBranch = "done"
    /\ pipelineKind = PullRequestPipeline
    /\ pullRef = [baseBranch |-> <<"m","a","s","t","e","r">>,
                  pullRequests |-> << [ID |-> <<"4","5","5","4">>] >>]
    /\ branchIdentifier = <<"P","R","-","4","5","5","4">>
    /\ branchErr = "nil"

====
